---- MODULE Spec2Model ----
(***************************************************************************)
(* A model of the eGauge client library: the Device of egauge.ts           *)
(* (src/src/types.ts) and of egauge.js, the Token Expiry Checker of        *)
(* utils.ts / utils.js and the Authenticator (fetchToken).                 *)
(*                                                                         *)
(* Every await of the code is a step boundary: what runs between two       *)
(* awaits of one operation is one action.  The device (the remote HTTP     *)
(* server) and the network are the environment: each response is drawn     *)
(* from a small set.                                                       *)
(***************************************************************************)
EXTENDS Integers, Sequences, FiniteSets, TLC

VARIABLES
    impl,     \* which Device this is: "ts" (egauge.ts + utils.ts) or "js" (egauge.js + utils.js)
    now,      \* Date.now(), milliseconds
    token,    \* Device.token, the cached bearer token
    issued,   \* number of tokens the device has issued so far (names the tokens)
    started,  \* number of operations started so far
    ops,      \* the operations in flight on the Device: one record per caller
    chk,      \* one call of isTokenExpired: its arguments and its result
    conv,     \* one conversion of a register response: the response, the interval, the result
    rnd       \* one call of round: its arguments and its result

vars == <<impl, now, token, issued, started, ops, chk, conv, rnd>>

----------------------------------------------------------------------------
(* Bounds of the model *)

\* the number of operations the callers start in one run
MaxOps == 2
\* the clock of Spec stops here (milliseconds)
MaxNow == 120000
\* largest expiry claim (seconds) drawn for a direct call of isTokenExpired
MaxExp == 2
\* largest offset (seconds) drawn for a direct call of isTokenExpired
MaxOffset == 2
\* the clock values drawn for a direct call go up to MaxClock * HalfSecond ms
MaxClock == 10

(* Program constants *)

\* isTokenExpired(token, offset = 60)
DefaultOffset == 60
\* (exp + offset) * 1000: seconds to milliseconds
MsPerSecond == 1000

\* the two implementations of the repository
Impls == {"ts", "js"}

----------------------------------------------------------------------------
(* Bearer tokens.  A token is the string the login endpoint returned; the  *)
(* model keeps what jwt.decode makes of it.                                *)
(*   kind "jwt"       decodes, payload.exp = exp                           *)
(*   kind "noexp"     decodes, the payload has no exp claim                *)
(*   kind "bad"       a string jwt.decode returns null for                 *)
(*   kind "undefined" the value of data.jwt when the body has no jwt field *)
(*   kind "null"      the TypeScript constructor's this.token = null       *)
(* id tells the tokens of different logins apart.                          *)

Tok(i, k, e) == [id |-> i, kind |-> k, exp |-> e]

Null == Tok(0, "null", 0)

Undefined == Tok(0, "undefined", 0)

\* JavaScript numbers: undefined + offset is NaN, and every comparison with NaN is false
Num(v) == [nan |-> FALSE, v |-> v]

NaN == [nan |-> TRUE, v |-> 0]

JsAdd(a, b) == IF a.nan \/ b.nan THEN NaN ELSE Num(a.v + b.v)

JsMul(a, b) == IF a.nan \/ b.nan THEN NaN ELSE Num(a.v * b.v)

\* a comparison that also holds at equality
JsGe(a, b) == ~a.nan /\ ~b.nan /\ a.v >= b.v

JsGt(a, b) == ~a.nan /\ ~b.nan /\ a.v > b.v

\* jwt.decode(token, {complete: true}): null for what is no JWT, else the payload
JwtDecode(tok) ==
    IF tok.kind \in {"jwt", "noexp"}
    THEN [decoded |-> TRUE, hasExp |-> tok.kind = "jwt",
          exp |-> IF tok.kind = "jwt" THEN Num(tok.exp) ELSE NaN]
    ELSE [decoded |-> FALSE, hasExp |-> FALSE, exp |-> NaN]

\* utils.js: !decoded.payload.exp is true for a missing claim and for exp = 0
IsTokenExpiredJs(tok, offset, nowMs) ==
    LET d == JwtDecode(tok) IN
    IF ~d.decoded \/ ~d.hasExp \/ (d.exp.v = 0)
    THEN TRUE
    ELSE JsGt(Num(nowMs), JsMul(JsAdd(d.exp, Num(offset)), Num(MsPerSecond)))

\* utils.ts: payload.exp! is not checked; a missing claim makes exp NaN
IsTokenExpiredTs(tok, offset, nowMs) ==
    LET d == JwtDecode(tok) IN
    IF d.decoded
    THEN JsGt(Num(nowMs), JsMul(JsAdd(d.exp, Num(offset)), Num(MsPerSecond)))
    ELSE TRUE

IsTokenExpired(variant, tok, offset, nowMs) ==
    IF variant = "js" THEN IsTokenExpiredJs(tok, offset, nowMs)
    ELSE IsTokenExpiredTs(tok, offset, nowMs)

----------------------------------------------------------------------------
(* Errors.  cls is the JavaScript class of the thrown value; type and data *)
(* are the fields of an EGaugeError; cause tells plain errors apart;       *)
(* status is the HTTP status an error was made from (0: none).             *)

Err(c, t, d, w, s) == [cls |-> c, type |-> t, data |-> d, cause |-> w, status |-> s]

NoErr == Err("none", "none", "none", "none", 0)

\* fetch rejects with a TypeError when the network fails
NetworkError(where) == Err("TypeError", "none", "none", where, 0)

\* response.json() rejects with a SyntaxError when the body is no JSON
JsonError(where) == Err("SyntaxError", "none", "none", where, 0)

\* reading a property of null or undefined
PropertyError == Err("TypeError", "none", "none", "property of null or undefined", 0)

\* fetch(url, {method: 'GET', body}) : a GET request cannot carry a body
GetWithBodyError == Err("TypeError", "none", "none", "GET request with body", 0)

\* new EGaugeError(message, type, data)
EGaugeError(t, d) == Err("EGaugeError", t, d, "none", 0)

\* egauge.js: new Error(response.statusText)
StatusTextError(status) == Err("Error", "none", "none", "statusText", status)

\* a switch without the case for 403
HandleResponseStatusNo403(status, data) ==
    CASE status = 400 -> EGaugeError("BAD_REQUEST", data)
      [] status = 404 -> EGaugeError("NOT_FOUND", data)
      [] status = 500 -> EGaugeError("SERVER", data)
      [] OTHER -> EGaugeError("UNKNOWN", data)

\* handleResponseStatus(status, data)
HandleResponseStatus(status, data) ==
    CASE status = 400 -> EGaugeError("BAD_REQUEST", data)
      [] status = 403 -> EGaugeError("FORBIDDEN", data)
      [] status = 404 -> EGaugeError("NOT_FOUND", data)
      [] status = 500 -> EGaugeError("SERVER", data)
      [] OTHER -> EGaugeError("UNKNOWN", data)

\* handleEgaugeError(error): an EGaugeError is passed on, anything else is
\* wrapped: new EGaugeError('Error parsing eGauge response.', 'PARSE', error)
HandleEgaugeError(e) ==
    IF e.cls = "EGaugeError" THEN e
    ELSE Err("EGaugeError", "PARSE", e.cls, e.cause, e.status)

----------------------------------------------------------------------------
(* HTTP responses of the device *)

\* the status codes the device answers with
Statuses == {200, 400, 401, 403, 404, 500, 503}

\* response.ok
ResponseOk(status) == status >= 200 /\ status <= 299

\* the bodies the device answers with (raw text)
Bodies == {"not json", "{}", "{registers, ranges, result}"}

\* response.json(): the parsed value of a body, or a rejection
ResponseJson(body) ==
    CASE body = "{}" -> [ok |-> TRUE, value |-> "emptyObject"]
      [] body = "{registers, ranges, result}" -> [ok |-> TRUE, value |-> "fullObject"]
      [] OTHER -> [ok |-> FALSE, value |-> "none"]

\* egauge.ts: await response.json().catch(() => null)
JsonOrNull(body) == IF ResponseJson(body).ok THEN ResponseJson(body).value ELSE "null"

----------------------------------------------------------------------------
(* The public operations of the Device *)

\* the callers that may have an operation in flight on the one Device
Procs == {"a", "b"}

\* egauge.ts: the public methods of Device
TsOps == {"getRegistersAtTime", "getValuesForRange", "getEpoch",
          "getCurrentRegisters", "reboot", "getTime", "getUptime"}

\* egauge.js: the public methods of Device
JsOps == {"getValuesAtTime", "getValuesForRange", "getEpoch", "getValuesNow"}

OpNames(variant) == IF variant = "ts" THEN TsOps ELSE JsOps

\* reboot goes through postRequest, everything else through getRequest
Method(name) == IF name = "reboot" THEN "POST" ELSE "GET"

\* the endpoint (and the query parameters) an operation asks for
Endpoint(name) ==
    CASE name \in {"getRegistersAtTime", "getValuesAtTime", "getValuesForRange"}
           -> "/register?time"
      [] name \in {"getCurrentRegisters", "getValuesNow"} -> "/register?rate"
      [] name = "getEpoch" -> "/config/db/epoch"
      [] name = "getTime" -> "/sys/time"
      [] name = "getUptime" -> "/sys/uptime"
      [] OTHER -> "/cmd/reboot"

\* the operations whose body is try { ... } catch (error) { throw handleEgaugeError(error) }
Catches(variant, name) == variant = "ts" /\ name # "getCurrentRegisters"

\* what an operation makes of the data its request returned: a value, or a
\* TypeError thrown while reading the data
Convert(variant, name, data) ==
    CASE name = "reboot" -> [ok |-> TRUE, value |-> "undefined"]
      [] name \in {"getEpoch", "getTime", "getUptime"} ->
           IF data = "null" THEN [ok |-> FALSE, value |-> "none"]
           ELSE [ok |-> TRUE, value |-> IF data = "fullObject" THEN "number" ELSE "NaN"]
      [] name = "getValuesForRange" /\ variant = "ts" ->
           IF data = "null" THEN [ok |-> FALSE, value |-> "none"]
           ELSE [ok |-> TRUE, value |-> IF data = "fullObject" THEN "series" ELSE "emptySeries"]
      [] OTHER ->
           IF data = "fullObject" THEN [ok |-> TRUE, value |-> "registers"]
           ELSE [ok |-> FALSE, value |-> "none"]

\* the outcome of an operation or of a request: kind is "return" or "throw"
Return(v) == [kind |-> "return", value |-> v, err |-> NoErr]

Throw(e) == [kind |-> "throw", value |-> "none", err |-> e]

Pending == [kind |-> "none", value |-> "none", err |-> NoErr]

\* a public operation around its request: the conversion of the data and the catch
Operation(variant, name, req) ==
    LET raw == IF req.kind = "throw" THEN req
               ELSE IF Convert(variant, name, req.value).ok
                    THEN Return(Convert(variant, name, req.value).value)
                    ELSE Throw(PropertyError)
    IN IF raw.kind = "throw" /\ Catches(variant, name)
       THEN Throw(HandleEgaugeError(raw.err))
       ELSE raw

----------------------------------------------------------------------------
(* The events of one operation, in order: the trace the claims speak about *)

Event(e, m, b, t, s, r) ==
    [ev |-> e, method |-> m, hasBody |-> b, tok |-> t, status |-> s, body |-> r]

\* getToken returned the cached token t
EvReuse(t) == Event("reuse", "none", FALSE, t, 0, "none")

\* fetchToken was called (the challenge GET goes out)
EvFetchToken == Event("fetchToken", "GET", FALSE, Null, 0, "none")

\* the login POST goes out
EvLogin(payload) == Event("login", "POST", TRUE, Null, 0, payload)

\* fetchToken resolved with t / rejected
EvResolved(t) == Event("resolved", "none", FALSE, t, 0, "none")

EvRejected == Event("rejected", "none", FALSE, Null, 0, "none")

\* a data call goes out: fetch(url, {method, body?, Authorization: Bearer t})
EvHttp(m, b, t) == Event("http", m, b, t, 0, "none")

\* a data call was answered
EvResponse(s, r) == Event("response", "none", FALSE, Null, s, r)

\* how many events of kind e a trace holds
Count(tr, e) == Cardinality({i \in 1..Len(tr) : tr[i].ev = e})

\* epoch is history, no field of the program: the number of tokens the
\* device had issued when the operation started
IdleOp ==
    [pc |-> "idle", name |-> "none", attempt |-> 0, tok |-> Null, trace |-> <<>>,
     authErr |-> NoErr, req |-> Pending, out |-> Pending, epoch |-> 0]

----------------------------------------------------------------------------
(* Device.getToken and fetchToken *)

\* the expiry claim (seconds) of the tokens the device issues
TokenExp == 30

\* what the challenge GET may bring: a network failure, a body that is no
\* JSON, {rlm, nnc}, or a JSON object without them
ChallengeOutcomes == {"network", "not json", "{rlm, nnc}", "{}"}

\* the challenge outcomes with a body that is as the protocol says, if any
PlainChallenges == {"network", "not json", "{rlm, nnc}"}

\* what the login POST may bring: a network failure, a body that is no JSON,
\* a JSON object without jwt, or {jwt} with a token of one of three kinds
LoginOutcomes == {"network", "not json", "{}", "jwt", "noexp", "bad"}

\* a getToken that returns a cached token without asking whether it expired
GetTokenReusesExpired(variant, cached, refresh, nowMs) ==
    /\ ~refresh
    /\ IF variant = "ts" THEN cached.kind \notin {"null", "undefined"}
       ELSE cached.kind # "undefined"

\* a getToken that honours the cache even when asked to refresh
GetTokenReusesDespiteRefresh(variant, cached, refresh, nowMs) ==
    /\ IF variant = "ts" THEN cached.kind \notin {"null", "undefined"}
       ELSE cached.kind # "undefined"
    /\ ~IsTokenExpired(variant, cached, DefaultOffset, nowMs)

\* the condition of getToken's if: the cached token is returned as it is
\*   egauge.ts: this.token && !isTokenExpired(this.token) && !refresh
\*   egauge.js: !refresh && this.token !== undefined && !isTokenExpired(this.token)
GetTokenReuses(variant, cached, refresh, nowMs) ==
    /\ ~refresh
    /\ IF variant = "ts" THEN cached.kind \notin {"null", "undefined"}
       ELSE cached.kind # "undefined"
    /\ ~IsTokenExpired(variant, cached, DefaultOffset, nowMs)

\* the operation ends: its request has outcome req, the public operation
\* around it makes its own outcome of that
Finish(o, req) ==
    [o EXCEPT !.pc = "done", !.req = req, !.out = Operation(impl, o.name, req)]

\* getToken(refresh) called by operation o: either the cached token is
\* returned, or fetchToken is called and its challenge GET goes out
GetToken(o, refresh) ==
    IF GetTokenReuses(impl, token, refresh, now)
    THEN [o EXCEPT !.pc = "gotToken", !.tok = token,
                   !.trace = Append(o.trace, EvReuse(token))]
    ELSE [o EXCEPT !.pc = "challenge", !.trace = Append(o.trace, EvFetchToken)]

\* fetchToken rejects with e: getToken, the request and the operation reject
\* in turn; this.token is not assigned
FetchTokenRejects(o, e) ==
    Finish([o EXCEPT !.authErr = e, !.trace = Append(o.trace, EvRejected)], Throw(e))

\* a getToken that keeps the token it has cached: the first write wins
TokenKeptWhenCached(cached, resolved, t) ==
    IF resolved /\ cached.kind \in {"null", "undefined"} THEN t ELSE cached

\* a getToken that drops the cached token when fetchToken rejects
TokenClearedOnFailure(cached, resolved, t) == IF resolved THEN t ELSE Undefined

\* this.token after getToken's await of fetchToken: the assignment
\* this.token = token comes after the await, so a rejection skips it
TokenAfterFetch(cached, resolved, t) == IF resolved THEN t ELSE cached

\* a caller starts a public operation: getRequest / postRequest call getToken()
Start(p, name) ==
    /\ ops[p].pc = "idle"
    /\ name \in OpNames(impl)
    /\ started < MaxOps
    /\ started' = started + 1
    /\ ops' = [ops EXCEPT ![p] = GetToken([ops[p] EXCEPT !.name = name, !.attempt = 1, !.epoch = issued], FALSE)]
    /\ UNCHANGED <<impl, now, token, issued, chk, conv, rnd>>

\* createPayload(username, password, rlm, nnc) as JSON.stringify sends it: rlm
\* and nnc are undefined when the challenge body has none, and JSON.stringify
\* leaves undefined properties out
CreatePayload(outcome) ==
    IF outcome = "{rlm, nnc}" THEN "{usr, rlm, nnc, cnnc, hash}" ELSE "{usr, cnnc, hash}"

\* fetchToken, first step: the challenge GET ends.  On {rlm, nnc} (and on a
\* JSON object without them: rlm and nnc are then undefined) the payload is
\* made and the login POST goes out.
ChallengeResponse(p, outcome) ==
    /\ ops[p].pc = "challenge"
    /\ outcome \in ChallengeOutcomes
    /\ ops' = [ops EXCEPT ![p] =
         CASE outcome = "network" -> FetchTokenRejects(ops[p], NetworkError("challenge"))
           [] outcome = "not json" -> FetchTokenRejects(ops[p], JsonError("challenge"))
           [] OTHER -> [ops[p] EXCEPT !.pc = "login", !.trace = Append(ops[p].trace, EvLogin(CreatePayload(outcome)))]]
    /\ token' = IF outcome \in {"network", "not json"}
                THEN TokenAfterFetch(token, FALSE, Undefined)
                ELSE token
    /\ UNCHANGED <<impl, now, issued, started, chk, conv, rnd>>

\* the token fetchToken resolves with: data.jwt
IssuedToken(outcome) ==
    CASE outcome = "jwt" -> Tok(issued + 1, "jwt", TokenExp)
      [] outcome = "noexp" -> Tok(issued + 1, "noexp", 0)
      [] outcome = "bad" -> Tok(issued + 1, "bad", 0)
      [] OTHER -> Undefined

\* getToken after its await: this.token = token; return token
StoreToken(o, t) ==
    [o EXCEPT !.pc = "gotToken", !.tok = t, !.trace = Append(o.trace, EvResolved(t))]

\* fetchToken, second step: the login POST ends; resolve(data.jwt), and
\* getToken stores what fetchToken resolved with
LoginResponse(p, outcome) ==
    /\ ops[p].pc = "login"
    /\ outcome \in LoginOutcomes
    /\ IF outcome \in {"network", "not json"}
       THEN /\ ops' = [ops EXCEPT ![p] =
                 FetchTokenRejects(ops[p], IF outcome = "network"
                                           THEN NetworkError("login")
                                           ELSE JsonError("login"))]
            /\ token' = TokenAfterFetch(token, FALSE, Undefined)
            /\ issued' = issued
       ELSE /\ ops' = [ops EXCEPT ![p] = StoreToken(ops[p], IssuedToken(outcome))]
            /\ token' = TokenAfterFetch(token, TRUE, IssuedToken(outcome))
            /\ issued' = IF outcome = "{}" THEN issued ELSE issued + 1
    /\ UNCHANGED <<impl, now, started, chk, conv, rnd>>

----------------------------------------------------------------------------
(* Device.getRequest and Device.postRequest *)

\* the method of the data call of an attempt: postRequest of egauge.ts
\* retries with method 'GET' (and the same body)
CallMethod(variant, name, attempt) ==
    IF Method(name) = "POST" /\ attempt = 2 THEN "GET" ELSE Method(name)

\* postRequest sends body: JSON.stringify(body) with both of its calls
CallHasBody(name) == Method(name) = "POST"

\* fetch refuses a GET request that has a body: it rejects with a TypeError
\* and nothing is sent
FetchRefuses(method, hasBody) == method = "GET" /\ hasBody

\* a retry that sends the token of the first call again (the outer const
\* token in place of the inner one)
BearerOfFirstCall(o, cached) ==
    IF o.attempt = 2 /\ \E i \in 1..Len(o.trace) : o.trace[i].ev = "http"
    THEN o.trace[CHOOSE i \in 1..Len(o.trace) :
                    /\ o.trace[i].ev = "http"
                    /\ \A j \in 1..(i - 1) : o.trace[j].ev # "http"].tok
    ELSE o.tok

\* a request that reads this.token when the call goes out
BearerFromCache(o, cached) == cached

\* Authorization: `Bearer ${token}`: token is the constant of the request
\* that holds what its own getToken call returned, not this.token
Bearer(o, cached) == o.tok

\* the request goes on after getToken returned: the data call goes out
SendRequest(p) ==
    LET o == ops[p]
        m == CallMethod(impl, o.name, o.attempt)
        b == CallHasBody(o.name)
        t == Bearer(o, token)
    IN /\ o.pc = "gotToken"
       /\ ops' = [ops EXCEPT ![p] =
            IF FetchRefuses(m, b)
            THEN Finish([o EXCEPT !.trace = Append(o.trace, Event("refused", m, b, t, 0, "none"))],
                        Throw(GetWithBodyError))
            ELSE [o EXCEPT !.pc = "await", !.trace = Append(o.trace, EvHttp(m, b, t))]]
       /\ UNCHANGED <<impl, now, token, issued, started, chk, conv, rnd>>

\* a request that retries after every 401
RetriesEvery401(status, attempt) == status = 401

\* a 401 is answered by getToken(true) and a second call, once
Retries(status, attempt) == status = 401 /\ attempt = 1

\* what the request returns for a successful response
\*   egauge.ts: data = await response.json().catch(() => null); return data
\*   egauge.js: return await response.json()
OnSuccess(variant, body) ==
    IF variant = "ts" THEN Return(JsonOrNull(body))
    ELSE IF ResponseJson(body).ok THEN Return(ResponseJson(body).value)
         ELSE Throw(JsonError("data"))

\* what the request throws for a response that is neither successful nor retried
\*   egauge.ts: throw handleResponseStatus(response.status, data)
\*   egauge.js: throw new Error(response.statusText)
OnFailure(variant, status, body) ==
    IF variant = "ts" THEN Throw(HandleResponseStatus(status, JsonOrNull(body)))
    ELSE Throw(StatusTextError(status))

\* the request goes on after the response of a data call
AfterResponse(o, status, body) ==
    LET seen == [o EXCEPT !.trace = Append(o.trace, EvResponse(status, body))] IN
    IF ResponseOk(status) THEN Finish(seen, OnSuccess(impl, body))
    ELSE IF Retries(status, o.attempt)
         THEN GetToken([seen EXCEPT !.attempt = o.attempt + 1], TRUE)
         ELSE Finish(seen, OnFailure(impl, status, body))

\* the device answers a data call
DataResponse(p, status, body) ==
    /\ ops[p].pc = "await"
    /\ status \in Statuses
    /\ body \in Bodies
    /\ ops' = [ops EXCEPT ![p] = AfterResponse(ops[p], status, body)]
    /\ UNCHANGED <<impl, now, token, issued, started, chk, conv, rnd>>

\* the network fails under a data call: fetch rejects, the request rejects
DataNetworkFailure(p) ==
    /\ ops[p].pc = "await"
    /\ ops' = [ops EXCEPT ![p] = Finish(ops[p], Throw(NetworkError("data")))]
    /\ UNCHANGED <<impl, now, token, issued, started, chk, conv, rnd>>

\* the caller of a finished operation has its outcome; the caller may go on
Settle(p) ==
    /\ ops[p].pc = "done"
    /\ ops' = [ops EXCEPT ![p] = IdleOp]
    /\ UNCHANGED <<impl, now, token, issued, started, chk, conv, rnd>>

\* time passes
Tick ==
    /\ now + DefaultOffset * MsPerSecond <= MaxNow
    /\ now' = now + DefaultOffset * MsPerSecond
    /\ UNCHANGED <<impl, token, issued, started, ops, chk, conv, rnd>>

----------------------------------------------------------------------------
(* The Device with its callers *)

\* isTokenExpired has not been called directly
NoCheck == [tok |-> Null, offset |-> 0, called |-> FALSE, result |-> FALSE]

\* no register response is being converted on its own
NoConversion == [op |-> "none", called |-> FALSE]

\* round has not been called directly
NoRound == [called |-> FALSE]

\* new Device(...): egauge.ts sets this.token = null, egauge.js leaves it undefined
Init ==
    /\ impl \in Impls
    /\ now = 0
    /\ token = IF impl = "ts" THEN Null ELSE Undefined
    /\ issued = 0
    /\ started = 0
    /\ ops = [p \in Procs |-> IdleOp]
    /\ chk = NoCheck
    /\ conv = NoConversion
    /\ rnd = NoRound

\* one caller: its operations follow one another (await op1; await op2; ...)
Next ==
    \/ \E name \in TsOps \cup JsOps : Start("a", name)
    \/ \E outcome \in PlainChallenges : ChallengeResponse("a", outcome)
    \/ \E outcome \in LoginOutcomes : LoginResponse("a", outcome)
    \/ SendRequest("a")
    \/ \E status \in Statuses, body \in Bodies : DataResponse("a", status, body)
    \/ DataNetworkFailure("a")
    \/ Settle("a")
    \/ Tick

Spec == Init /\ [][Next]_vars

----------------------------------------------------------------------------
(* Two callers at once on the same Device.  The operations of the two      *)
(* interleave at their awaits; the device's answers are drawn from the     *)
(* sets below.                                                             *)

RaceOps == {"getEpoch"}

RaceStatuses == {200, 401}

RaceBodies == {"{registers, ranges, result}"}

RaceLogins == {"network", "not json", "{}", "jwt"}

NextRace ==
    \/ \E p \in Procs, name \in RaceOps : Start(p, name)
    \/ \E p \in Procs, outcome \in PlainChallenges : ChallengeResponse(p, outcome)
    \/ \E p \in Procs, outcome \in RaceLogins : LoginResponse(p, outcome)
    \/ \E p \in Procs : SendRequest(p)
    \/ \E p \in Procs, status \in RaceStatuses, body \in RaceBodies : DataResponse(p, status, body)
    \/ \E p \in Procs : Settle(p)
    \/ Tick

SpecRace == Init /\ [][NextRace]_vars

----------------------------------------------------------------------------
(* One caller whose requests meet every outcome of the challenge and of    *)
(* the login, data calls answered 200 or 401                               *)

NextAuth ==
    \/ \E name \in RaceOps : Start("a", name)
    \/ \E outcome \in ChallengeOutcomes : ChallengeResponse("a", outcome)
    \/ \E outcome \in LoginOutcomes : LoginResponse("a", outcome)
    \/ SendRequest("a")
    \/ \E status \in RaceStatuses, body \in RaceBodies : DataResponse("a", status, body)
    \/ Settle("a")
    \/ Tick

SpecAuth == Init /\ [][NextAuth]_vars

----------------------------------------------------------------------------
(* isTokenExpired called directly, on arguments drawn from bounded sets *)

\* the tokens isTokenExpired is called on
CheckTokens ==
    {Tok(1, "jwt", e) : e \in 0..MaxExp} \cup {Tok(1, "noexp", 0), Tok(1, "bad", 0), Undefined}

\* the offsets isTokenExpired is called with
CheckOffsets == (0 - 1)..MaxOffset

\* the values of Date.now(): every half second up to MaxClock half seconds
CheckClocks == {k * (MsPerSecond \div 2) : k \in 0..MaxClock}

InitExpiry ==
    /\ impl \in Impls
    /\ now \in CheckClocks
    /\ token = IF impl = "ts" THEN Null ELSE Undefined
    /\ issued = 0
    /\ started = 0
    /\ ops = [p \in Procs |-> IdleOp]
    /\ chk \in [tok : CheckTokens, offset : CheckOffsets, called : {FALSE}, result : {FALSE}]
    /\ conv = NoConversion
    /\ rnd = NoRound

\* isTokenExpired(chk.tok, chk.offset) is called at time now
CallIsTokenExpired ==
    /\ ~chk.called
    /\ chk' = [chk EXCEPT !.called = TRUE,
                          !.result = IsTokenExpired(impl, chk.tok, chk.offset, now)]
    /\ UNCHANGED <<impl, now, token, issued, started, ops, conv, rnd>>

NextExpiry == CallIsTokenExpired

SpecExpiry == InitExpiry /\ [][NextExpiry]_vars

----------------------------------------------------------------------------
(* Reading a trace *)

\* the responses to the data calls of a trace, in order
Responses(tr) == SelectSeq(tr, LAMBDA e : e.ev = "response")

\* the places of the events of kind e in a trace
Places(tr, e) == {i \in 1..Len(tr) : tr[i].ev = e}

Least(S) == CHOOSE i \in S : \A j \in S : i <= j

Greatest(S) == CHOOSE i \in S : \A j \in S : j <= i

\* the request has had its final response: the first one when it is neither
\* successful nor 401, otherwise the one to the retried call
HasFinalResponse(tr) ==
    \/ Len(Responses(tr)) = 2
    \/ Len(Responses(tr)) = 1 /\ Responses(tr)[1].status # 401

FinalResponse(tr) == Responses(tr)[Len(Responses(tr))]

----------------------------------------------------------------------------
(* C1..C5: the Authenticated Request Executor *)

C2_Claimed ==
    \A p \in Procs :
        LET rs == Responses(ops[p].trace) IN
        /\ Cardinality(Places(ops[p].trace, "http")) <= 2
        /\ (Len(rs) = 2 /\ rs[1].status = 401 /\ rs[2].status = 401) =>
              /\ ops[p].pc = "done"
              /\ ops[p].req.kind = "throw"
              /\ ops[p].req.err.cls = "EGaugeError"

\* C3 (as claimed): fetchToken is called at most once in one request.
C3_Claimed == \A p \in Procs : Count(ops[p].trace, "fetchToken") <= 1

\* C3 (amended): fetchToken is called at most twice in one request: at most
\* once by the first getToken(), and not at all when that call returned the
\* cached token; at most once more by getToken(true), and only after a first
\* response of status 401.
C3_AtMostTwoFetches ==
    \A p \in Procs :
        LET tr == ops[p].trace
            f == Places(tr, "fetchToken")
            r == Places(tr, "response")
        IN /\ Cardinality(f) <= 2
           /\ r = {} => Cardinality(f) <= 1
           /\ r # {} => /\ Cardinality({i \in f : i < Least(r)}) <= 1
                        /\ Cardinality({i \in f : i > Least(r)}) <= 1
                        /\ {i \in f : i > Least(r)} # {} => tr[Least(r)].status = 401
           /\ (tr # <<>> /\ tr[1].ev = "reuse") => Cardinality({i \in f : r = {} \/ i < Least(r)}) = 0

\* a request that called fetchToken twice: no usable cached token, then a 401
C3_Witness == \E p \in Procs : Count(ops[p].trace, "fetchToken") = 2

C5_OwnTokenUnderRace ==
    \A p \in Procs :
        LET tr == ops[p].trace IN
        /\ \A i \in Places(tr, "http") :
              \E j \in 1..(i - 1) :
                  /\ tr[j].ev \in {"reuse", "resolved"}
                  /\ \A k \in (j + 1)..(i - 1) : tr[k].ev \notin {"reuse", "resolved"}
                  /\ tr[i].tok = tr[j].tok
        /\ (\A i \in Places(tr, "response") : tr[i].status # 401) =>
              Count(tr, "fetchToken") <= 1

\* both operations found no usable token, both logged in, and both data calls
\* are out: each with its own token, one of which is no longer the cached one
C5_Witness ==
    /\ \A p \in Procs :
          /\ ops[p].pc = "await"
          /\ ops[p].trace[1].ev = "fetchToken"
          /\ Count(ops[p].trace, "response") = 0
          /\ ops[p].tok.kind = "jwt"
    /\ ops["a"].tok # ops["b"].tok
    /\ token = ops["b"].tok
    /\ ops["a"].trace[Len(ops["a"].trace)].tok = ops["a"].tok

----------------------------------------------------------------------------
(* C6..C8: the Token Expiry Checker, under SpecExpiry *)

\* C6 (as claimed): for a token that decodes with expiry claim E, offset o and
\* time now, isTokenExpired returns false exactly when now < (E + o) * 1000.
C6_Claimed ==
    (chk.called /\ chk.tok.kind = "jwt") =>
        (chk.result = FALSE <=> now < (chk.tok.exp + chk.offset) * 1000)

\* C6 (amended): for a token that decodes with expiry claim E # 0, offset o
\* and time now, isTokenExpired returns false exactly when
\* now <= (E + o) * 1000; at now = (E + o) * 1000 it returns false.  For E = 0
\* utils.ts follows the same rule and utils.js returns true at every time.
C6_FalseIffNotAfterExpiry ==
    (chk.called /\ chk.tok.kind = "jwt") =>
        IF chk.tok.exp = 0 /\ impl = "js"
        THEN chk.result = TRUE
        ELSE (chk.result = FALSE <=> now <= (chk.tok.exp + chk.offset) * 1000)

\* isTokenExpired was called exactly at (E + o) * 1000 and returned false
C6_Witness ==
    /\ chk.called
    /\ chk.tok.kind = "jwt"
    /\ chk.tok.exp # 0
    /\ now = (chk.tok.exp + chk.offset) * 1000
    /\ chk.result = FALSE

\* C7 (as claimed): with offset o > 0, isTokenExpired returns true at every
\* time within o seconds before the expiry E of the token.
C7_Claimed ==
    (/\ chk.called
     /\ chk.tok.kind = "jwt"
     /\ chk.offset > 0
     /\ now >= (chk.tok.exp - chk.offset) * 1000
     /\ now < chk.tok.exp * 1000) => chk.result = TRUE

\* C8 (as claimed): isTokenExpired returns true for every token that does not
\* decode and for every token that decodes without an expiry claim.
C8_Claimed ==
    (chk.called /\ chk.tok.kind \in {"bad", "undefined", "noexp"}) => chk.result = TRUE

----------------------------------------------------------------------------
(* C9, C10: errors, under Spec *)

\* C9: in egauge.ts, when the final response of a request is not successful,
\* the request (and the public operation around it) throws an EGaugeError of
\* type BAD_REQUEST for 400, FORBIDDEN for 403, NOT_FOUND for 404, SERVER for
\* 500 and UNKNOWN for any other status, whose data is the parsed body of
\* that same response (null when the body is no JSON).
C9_TypedErrorOfFinalResponse ==
    \A p \in Procs :
        LET tr == ops[p].trace IN
        (/\ impl = "ts"
         /\ HasFinalResponse(tr)
         /\ ~ResponseOk(FinalResponse(tr).status)) =>
            LET st == FinalResponse(tr).status
                body == FinalResponse(tr).body
                e == ops[p].req.err
            IN /\ ops[p].pc = "done"
               /\ ops[p].req.kind = "throw"
               /\ ops[p].out = ops[p].req
               /\ e.cls = "EGaugeError"
               /\ st = 400 => e.type = "BAD_REQUEST"
               /\ st = 403 => e.type = "FORBIDDEN"
               /\ st = 404 => e.type = "NOT_FOUND"
               /\ st = 500 => e.type = "SERVER"
               /\ st \notin {400, 403, 404, 500} => e.type = "UNKNOWN"
               /\ body = "not json" => e.data = "null"
               /\ body = "{}" => e.data = "emptyObject"
               /\ body = "{registers, ranges, result}" => e.data = "fullObject"

\* a retried call was answered 403 with another body than the 401 before it
C9_Witness ==
    \E p \in Procs :
        /\ impl = "ts"
        /\ Len(Responses(ops[p].trace)) = 2
        /\ Responses(ops[p].trace)[1].body = "{registers, ranges, result}"
        /\ Responses(ops[p].trace)[2].status = 403
        /\ Responses(ops[p].trace)[2].body = "{}"
        /\ ops[p].out = Throw(EGaugeError("FORBIDDEN", "emptyObject"))

\* C10 (as claimed): when fetchToken rejects, the caller of the public
\* operation gets the very error fetchToken rejected with.
C10_Claimed ==
    \A p \in Procs :
        (ops[p].pc = "done" /\ ops[p].authErr # NoErr) => ops[p].out = Throw(ops[p].authErr)

\* the operations of egauge.ts that read registers out of the response
RegisterOps == {"getCurrentRegisters", "getRegistersAtTime", "getValuesForRange"}

\* C11 (as claimed): in egauge.ts, when the final response of a
\* register-reading operation is successful and its JSON body has neither
\* ranges nor registers, the operation throws an EGaugeError of type PARSE
\* that wraps the cause: it returns no result and throws no untyped error.
C11_Claimed ==
    \A p \in Procs :
        LET tr == ops[p].trace IN
        (/\ impl = "ts"
         /\ ops[p].name \in RegisterOps
         /\ HasFinalResponse(tr)
         /\ ResponseOk(FinalResponse(tr).status)
         /\ FinalResponse(tr).body = "{}") =>
            /\ ops[p].pc = "done"
            /\ ops[p].out.kind = "throw"
            /\ ops[p].out.err.cls = "EGaugeError"
            /\ ops[p].out.err.type = "PARSE"
            /\ ops[p].out.err.data = "TypeError"

----------------------------------------------------------------------------
(* round (utils.ts / utils.js) *)

\* the largest numerator and denominator of the numbers round is called on,
\* and the largest number of decimal places
MaxNum == 5
MaxDen == 4
MaxPlaces == 2

\* round(number, decimalPlaces = 6)
DefaultPlaces == 6

\* a number that is no integer: num / den, with den > 0.  The model computes
\* with exact fractions; on the numbers drawn here the doubles of the code
\* give the same roundings (no product lies within an ulp of a tie that is
\* not an exact tie).
Rat(n, d) == [num |-> n, den |-> d]

RatMul(a, b) == Rat(a.num * b.num, a.den * b.den)

RECURSIVE Pow(_, _)
\* Math.pow(base, e) for an integer e >= 0
Pow(base, e) == IF e = 0 THEN 1 ELSE base * Pow(base, e - 1)

\* a rounding that drops the fraction
MathTrunc(x) ==
    IF x.num >= 0 THEN x.num \div x.den ELSE 0 - ((0 - x.num) \div x.den)

\* Math.round(x): the integer nearest to x, the larger one of the two when x
\* lies halfway between them: floor(x + 1/2)
MathRound(x) == (2 * x.num + x.den) \div (2 * x.den)

\* the error round throws
UsageError == Err("Error", "none", "none", "decimal places must be positive", 0)

\* round(number, decimalPlaces): Math.round(number * pow) / pow
round(number, decimalPlaces) ==
    IF decimalPlaces < 0 THEN Throw(UsageError)
    ELSE LET pow == Pow(10, decimalPlaces)
         IN Return(Rat(MathRound(RatMul(number, Rat(pow, 1))), pow))

\* the numbers and the decimal places round is called with
RoundNumbers == {Rat(n, d) : n \in (0 - MaxNum)..MaxNum, d \in 1..MaxDen}

RoundPlaces == (0 - 1)..MaxPlaces

InitRound ==
    /\ impl \in Impls
    /\ now = 0
    /\ token = IF impl = "ts" THEN Null ELSE Undefined
    /\ issued = 0
    /\ started = 0
    /\ ops = [p \in Procs |-> IdleOp]
    /\ chk = NoCheck
    /\ conv = NoConversion
    /\ rnd \in [number : RoundNumbers, places : RoundPlaces, called : {FALSE}, out : {Pending}]

\* round(rnd.number, rnd.places) is called
CallRound ==
    /\ ~rnd.called
    /\ rnd' = [rnd EXCEPT !.called = TRUE, !.out = round(rnd.number, rnd.places)]
    /\ UNCHANGED <<impl, now, token, issued, started, ops, chk, conv>>

NextRound == CallRound

SpecRound == InitRound /\ [][NextRound]_vars

----------------------------------------------------------------------------
(* The Register Value Converter: getRegistersAtTime / getValuesAtTime and  *)
(* getValuesForRange, on register responses drawn from bounded sets        *)

\* a response holds up to MaxRegs registers and up to MaxRows rows
MaxRegs == 2
MaxRows == 3
\* a cumulative counter reads 0 or MaxCounter
MaxCounter == 5
\* the requested interval and the delta the device reports: 1..MaxInterval seconds
MaxInterval == 3
\* ranges[0].ts, the timestamp of the newest row
NewestTs == 1000

\* the names and the types of the registers of a response, by position
RegisterNames == <<"use", "gen", "grid">>

RegisterTypes == <<"A", "B", "A">>

\* config.json: the multiplier of each register type
multipliers == [t \in {"A", "B"} |-> IF t = "A" THEN Rat(1, 1) ELSE Rat(2, 1)]

\* the device sends its numbers as decimal strings: the string spelling n
Digits(n) == [digits |-> n]

\* parseInt(text) of a string of digits
ParseInt(text) == text.digits

\* data.registers with c registers
Registers(c) == [i \in 1..c |-> [name |-> RegisterNames[i], type |-> RegisterTypes[i]]]

\* the register responses: data.registers, data.ranges[0].{ts, delta, rows},
\* rows newest first, one counter per register in every row
RegisterResponses ==
    UNION {[registers : {Registers(c)},
            ts : {Digits(NewestTs)},
            delta : 1..MaxInterval,
            rows : [1..k -> [1..c -> {Digits(0), Digits(MaxCounter)}]]] :
           c \in 0..MaxRegs, k \in 0..MaxRows}

\* round((diff / seconds) * multipliers[type])
Rate(diff, seconds, type) ==
    round(RatMul(Rat(diff, seconds), multipliers[type]), DefaultPlaces).value

\* the object a loop over the registers fills: registers[name] = vals[i], a
\* later register of the same name overwriting an earlier one
RegisterMap(regs, vals) ==
    [n \in {regs[i].name : i \in 1..Len(regs)} |->
        vals[Greatest({i \in 1..Len(regs) : regs[i].name = n})]]

\* const end = rows[0] ?? new Array(regCount).fill(0)
LaterRow(rows, regCount) ==
    IF Len(rows) >= 1 THEN rows[1] ELSE [i \in 1..regCount |-> Digits(0)]

\* an earlier row that is all zeros when the device sent one row only
EarlierRowOrZeros(rows, end) ==
    IF Len(rows) >= 2 THEN rows[2] ELSE [i \in 1..Len(end) |-> Digits(0)]

\* const start = rows[1] ?? end
EarlierRow(rows, end) == IF Len(rows) >= 2 THEN rows[2] ELSE end

\* a difference taken the wrong way round
DiffReversed(later, earlier, i) == ParseInt(earlier[i]) - ParseInt(later[i])

\* parseInt(end[i]) - parseInt(start[i])
Diff(later, earlier, i) == ParseInt(later[i]) - ParseInt(earlier[i])

\* the body of getRegistersAtTime (egauge.ts) and of getValuesAtTime
\* (egauge.js) after the request: the same code in both
RegistersAtTime(data, interval) ==
    LET rows == data.rows
        regCount == Len(data.registers)
        end == LaterRow(rows, regCount)
        start == EarlierRow(rows, end)
    IN Return(RegisterMap(data.registers,
                          [i \in 1..regCount |->
                              Rate(Diff(end, start, i), interval, data.registers[i].type)]))

\* array.reverse()
Reverse(s) == [i \in 1..Len(s) |-> s[Len(s) + 1 - i]]

\* a series left in the order it was pushed
AsPushed(entries) == entries

\* return finalValues.reverse()
Chronological(entries) == Reverse(entries)

\* an entry stamped with the time of the older row of its pair
UnixOfOlderRow(ts, i, delta) == ts - (i + 1) * delta

\* const unix = ts - i * delta, i counting from 0
Unix(ts, i, delta) == ts - i * delta

\* egauge.ts getValuesForRange after the request
TsValuesForRange(data, interval) ==
    LET rows == data.rows
        count == Len(rows)
        ts == ParseInt(data.ts)
        delta == data.delta
        registers == data.registers
        entry(i) ==
            [time |-> Unix(ts, i, delta),
             registers |-> RegisterMap(registers,
                 [j \in 1..Len(registers) |->
                     Rate(Diff(rows[i + 1], rows[i + 2], j), delta, registers[j].type)])]
    IN IF count = 0 THEN Return(<<>>)
       ELSE Return(Chronological([k \in 1..(count - 1) |-> entry(k - 1)]))

\* new Array(-1) throws
RangeError == Err("RangeError", "none", "none", "Invalid array length", 0)

\* a getValuesForRange that leaves the values in the order of the rows
JsValuesNewestFirst(data, interval) ==
    LET rows == data.rows
        rowCount == Len(rows)
        regCount == Len(data.registers)
        values(i) ==
            [k \in 1..(rowCount - 1) |->
                Rate(Diff(rows[k], rows[k + 1], i), interval, data.registers[i].type)]
    IN IF regCount > 0 /\ rowCount - 1 < 0 THEN Throw(RangeError)
       ELSE Return(RegisterMap(data.registers, [i \in 1..regCount |-> values(i)]))

\* egauge.js getValuesForRange after the request
JsValuesForRange(data, interval) ==
    LET rows == data.rows
        rowCount == Len(rows)
        regCount == Len(data.registers)
        values(i) ==
            [k \in 1..(rowCount - 1) |->
                Rate(Diff(rows[rowCount - k], rows[rowCount - k + 1], i),
                     interval, data.registers[i].type)]
    IN IF regCount > 0 /\ rowCount - 1 < 0 THEN Throw(RangeError)
       ELSE Return(RegisterMap(data.registers, [i \in 1..regCount |-> values(i)]))

ValuesForRange(variant, data, interval) ==
    IF variant = "ts" THEN TsValuesForRange(data, interval)
    ELSE JsValuesForRange(data, interval)

\* the try { ... } catch (error) { throw handleEgaugeError(error) } of egauge.ts
Guarded(variant, name, raw) ==
    IF raw.kind = "throw" /\ Catches(variant, name)
    THEN Throw(HandleEgaugeError(raw.err))
    ELSE raw

InitConvert ==
    /\ impl \in Impls
    /\ now = 0
    /\ token = IF impl = "ts" THEN Null ELSE Undefined
    /\ issued = 0
    /\ started = 0
    /\ ops = [p \in Procs |-> IdleOp]
    /\ chk = NoCheck
    /\ conv \in [op : {"valueAtTime", "valuesForRange"},
                 data : RegisterResponses,
                 interval : 1..MaxInterval,
                 called : {FALSE},
                 out : {Pending}]
    /\ rnd = NoRound

\* getRegistersAtTime(unix, conv.interval) / getValuesAtTime(unix, conv.interval)
\* has received conv.data
CallValueAtTime ==
    /\ conv.op = "valueAtTime"
    /\ ~conv.called
    /\ conv' = [conv EXCEPT
                  !.called = TRUE,
                  !.out = Guarded(impl, IF impl = "ts" THEN "getRegistersAtTime"
                                        ELSE "getValuesAtTime",
                                  RegistersAtTime(conv.data, conv.interval))]
    /\ UNCHANGED <<impl, now, token, issued, started, ops, chk, rnd>>

\* getValuesForRange(startUnix, endUnix, conv.interval) has received conv.data
CallValuesForRange ==
    /\ conv.op = "valuesForRange"
    /\ ~conv.called
    /\ conv' = [conv EXCEPT
                  !.called = TRUE,
                  !.out = Guarded(impl, "getValuesForRange",
                                  ValuesForRange(impl, conv.data, conv.interval))]
    /\ UNCHANGED <<impl, now, token, issued, started, ops, chk, rnd>>

NextConvert == CallValueAtTime \/ CallValuesForRange

SpecConvert == InitConvert /\ [][NextConvert]_vars

----------------------------------------------------------------------------
(* C12..C16: the Register Value Converter *)

\* the names of the registers of the response that was converted
ConvNames == {conv.data.registers[i].name : i \in 1..Len(conv.data.registers)}

\* round((rows[r][i] - rows[r + 1][i]) / seconds * multiplier[type of register i]),
\* rows counted from 1, the newest first
Derived(r, i, seconds) ==
    round(RatMul(Rat(conv.data.rows[r][i].digits - conv.data.rows[r + 1][i].digits, seconds),
                 multipliers[conv.data.registers[i].type]),
          DefaultPlaces).value

\* C12: when the device returns two rows (newest first), value-at-time with
\* interval I returns exactly one entry per register name, and the entry of
\* the register at index i is round((rows[0][i] - rows[1][i]) / I *
\* multiplier[its type]).
C12_ValueAtTimeOfTwoRows ==
    (conv.called /\ conv.op = "valueAtTime" /\ Len(conv.data.rows) = 2) =>
        /\ conv.out.kind = "return"
        /\ DOMAIN conv.out.value = ConvNames
        /\ Cardinality(ConvNames) = Len(conv.data.registers)
        /\ \A i \in 1..Len(conv.data.registers) :
              conv.out.value[conv.data.registers[i].name] = Derived(1, i, conv.interval)

\* two registers, counters <<5, 0>> after <<0, 5>>, interval 3:
\* 5/3 rounds to 1.666667 and -10/3 to -3.333333
C12_Witness ==
    /\ conv.called
    /\ conv.op = "valueAtTime"
    /\ conv.interval = 3
    /\ conv.data.rows = << <<Digits(5), Digits(0)>>, <<Digits(0), Digits(5)>> >>
    /\ conv.out.kind = "return"
    /\ conv.out.value["use"] = Rat(1666667, 1000000)
    /\ conv.out.value["gen"] = Rat(0 - 3333333, 1000000)

\* C13: when the device returns exactly one row, value-at-time takes it for
\* the earlier row as well, and every value of the result is 0, whatever the
\* counters, the interval and the multipliers are.
C13_OneRowGivesZeros ==
    (conv.called /\ conv.op = "valueAtTime" /\ Len(conv.data.rows) = 1) =>
        /\ conv.out.kind = "return"
        /\ DOMAIN conv.out.value = ConvNames
        /\ \A n \in ConvNames : conv.out.value[n].num = 0

\* one row of two nonzero counters gave two zeros
C13_Witness ==
    /\ conv.called
    /\ conv.op = "valueAtTime"
    /\ conv.data.rows = << <<Digits(MaxCounter), Digits(MaxCounter)>> >>
    /\ conv.out.kind = "return"
    /\ conv.out.value["use"].num = 0
    /\ conv.out.value["gen"].num = 0

\* the timestamp of row r of the device (rows counted from 1, newest first)
RowTime(r) == conv.data.ts.digits - (r - 1) * conv.data.delta

\* C14: when the device returns N + 1 rows (N >= 0, newest first),
\* getValuesForRange returns exactly N entries in chronological order: in
\* egauge.ts N entries of strictly increasing timestamps, the k-th from the
\* end stamped with the time of device row k; in egauge.js N values per
\* register, the k-th from the end derived from device rows k and k + 1.
C14_SeriesIsChronological ==
    (conv.called /\ conv.op = "valuesForRange" /\ Len(conv.data.rows) >= 1) =>
        LET n == Len(conv.data.rows) - 1
            out == conv.out.value
        IN /\ conv.out.kind = "return"
           /\ impl = "ts" =>
                /\ Len(out) = n
                /\ \A k \in 1..(n - 1) : out[k].time < out[k + 1].time
                /\ \A k \in 1..n : out[n + 1 - k].time = RowTime(k)
           /\ impl = "js" =>
                \A i \in 1..Len(conv.data.registers) :
                    LET values == out[conv.data.registers[i].name] IN
                    /\ Len(values) = n
                    /\ \A k \in 1..n : values[n + 1 - k] = Derived(k, i, conv.interval)

\* egauge.ts turned three rows into two entries, the older one first
C14_Witness ==
    /\ impl = "ts"
    /\ conv.called
    /\ conv.op = "valuesForRange"
    /\ Len(conv.data.rows) = 3
    /\ conv.data.delta = 2
    /\ conv.out.kind = "return"
    /\ Len(conv.out.value) = 2
    /\ conv.out.value[1].time = NewestTs - 2
    /\ conv.out.value[2].time = NewestTs

\* what getValuesForRange returned for device row r and the register at index i
SeriesValue(r, i) ==
    LET n == Len(conv.data.rows) - 1
        name == conv.data.registers[i].name
    IN IF impl = "ts" THEN conv.out.value[n + 1 - r].registers[name]
       ELSE conv.out.value[name][n + 1 - r]

\* C15 (as claimed): in a ranged series with requested interval I, the value
\* for the adjacent rows i and i + 1 and register j is round((rows[i][j] -
\* rows[i + 1][j]) / I * multiplier), and (egauge.ts) it is stored under the
\* timestamp of row i.
C15_Claimed ==
    (conv.called /\ conv.op = "valuesForRange" /\ Len(conv.data.rows) >= 1) =>
        /\ conv.out.kind = "return"
        /\ \A r \in 1..(Len(conv.data.rows) - 1) :
              /\ impl = "ts" => conv.out.value[Len(conv.data.rows) - r].time = RowTime(r)
              /\ \A i \in 1..Len(conv.data.registers) :
                    SeriesValue(r, i) = Derived(r, i, conv.interval)

\* the number of seconds getValuesForRange divides by
Divisor == IF impl = "ts" THEN conv.data.delta ELSE conv.interval

\* C15 (amended): in a ranged series the value for the adjacent rows i and
\* i + 1 and register j is round((rows[i][j] - rows[i + 1][j]) / D *
\* multiplier), where D is the delta the device reports in egauge.ts and the
\* requested interval in egauge.js, and (egauge.ts) it is stored under the
\* timestamp of row i.
C15_DividesByDeltaOrInterval ==
    (conv.called /\ conv.op = "valuesForRange" /\ Len(conv.data.rows) >= 1) =>
        /\ conv.out.kind = "return"
        /\ \A r \in 1..(Len(conv.data.rows) - 1) :
              /\ impl = "ts" => conv.out.value[Len(conv.data.rows) - r].time = RowTime(r)
              /\ \A i \in 1..Len(conv.data.registers) :
                    SeriesValue(r, i) = Derived(r, i, Divisor)

\* egauge.ts, interval 1 requested and delta 3 reported: 5 / 3, not 5 / 1
C15_Witness ==
    /\ impl = "ts"
    /\ conv.called
    /\ conv.op = "valuesForRange"
    /\ conv.interval = 1
    /\ conv.data.delta = 3
    /\ conv.data.rows = << <<Digits(5)>>, <<Digits(0)>>, <<Digits(0)>> >>
    /\ conv.out.kind = "return"
    /\ conv.out.value[2] = [time |-> NewestTs, registers |-> [n \in {"use"} |-> Rat(1666667, 1000000)]]
    /\ conv.out.value[1].time = NewestTs - 3

\* C16 (as claimed): when the device returns zero rows, getValuesForRange
\* ends normally with an empty series, whatever the number of registers.
C16_Claimed ==
    (conv.called /\ conv.op = "valuesForRange" /\ Len(conv.data.rows) = 0) =>
        /\ conv.out.kind = "return"
        /\ impl = "ts" => conv.out.value = <<>>
        /\ impl = "js" => \A n \in ConvNames : conv.out.value[n] = <<>>

----------------------------------------------------------------------------
(* C17: round *)

Abs(n) == IF n < 0 THEN 0 - n ELSE n

\* twice the distance from the fraction y to the integer k, in units of 1 / y.den
TwiceDistance(y, k) == 2 * Abs(y.num - k * y.den)

\* the call of round that was made returned k / 10^places, k an integer
RoundReturned(k) ==
    /\ rnd.out.kind = "return"
    /\ rnd.out.value = Rat(k, Pow(10, rnd.places))

\* C17 (as claimed): round(x, d) with d >= 0 returns k / 10^d where k is the
\* integer nearest to x * 10^d, the one farther from zero when x * 10^d lies
\* halfway between two integers, for negative x as well; with d < 0 it
\* throws a usage error.
C17_Claimed ==
    rnd.called =>
        IF rnd.places < 0 THEN rnd.out = Throw(UsageError)
        ELSE LET y == RatMul(rnd.number, Rat(Pow(10, rnd.places), 1)) IN
             \E k \in (0 - MaxNum * Pow(10, MaxPlaces) - 1)..(MaxNum * Pow(10, MaxPlaces) + 1) :
                /\ RoundReturned(k)
                /\ TwiceDistance(y, k) <= y.den
                /\ TwiceDistance(y, k) = y.den => Abs(k * y.den) > Abs(y.num)

\* C17 (amended): round(x, d) with d >= 0 returns k / 10^d where k is the
\* integer nearest to x * 10^d, the larger one (toward plus infinity) when
\* x * 10^d lies halfway between two integers: away from zero for a positive
\* x, toward zero for a negative x; with d < 0 it throws a usage error.
C17_NearestTiesUp ==
    rnd.called =>
        IF rnd.places < 0 THEN rnd.out = Throw(UsageError)
        ELSE LET y == RatMul(rnd.number, Rat(Pow(10, rnd.places), 1)) IN
             \E k \in (0 - MaxNum * Pow(10, MaxPlaces) - 1)..(MaxNum * Pow(10, MaxPlaces) + 1) :
                /\ RoundReturned(k)
                /\ TwiceDistance(y, k) <= y.den
                /\ TwiceDistance(y, k) = y.den => k * y.den > y.num

\* round(-5/4, 1): -12.5 lies halfway between -13 and -12, and -1.2 came out
C17_Witness ==
    /\ rnd.called
    /\ rnd.number = Rat(0 - 5, 4)
    /\ rnd.places = 1
    /\ rnd.out = Return(Rat(0 - 12, 10))

----------------------------------------------------------------------------
(* C18..C20: getToken, the retried call, fetchToken *)

\* a token is cached and isTokenExpired reports it not expired
CachedAndFresh ==
    /\ token.kind \notin {"null", "undefined"}
    /\ ~IsTokenExpired(impl, token, DefaultOffset, now)

\* C18: getToken() without forced refresh (the first step of a request)
\* returns the cached token and calls no fetchToken when a token is cached
\* and isTokenExpired reports it not expired; in every other case it calls
\* fetchToken, once, and when fetchToken resolves it stores the token
\* fetchToken resolved with in the cache and returns that same token.
C18_GetTokenReusesOrFetchesOnce ==
    [][\A p \in Procs :
          /\ (ops[p].pc = "idle" /\ ops'[p].pc # "idle") =>
                IF CachedAndFresh
                THEN /\ ops'[p].pc = "gotToken"
                     /\ ops'[p].tok = token
                     /\ ops'[p].trace = <<EvReuse(token)>>
                     /\ token' = token
                ELSE /\ ops'[p].pc = "challenge"
                     /\ ops'[p].trace = <<EvFetchToken>>
          /\ (ops[p].attempt = 1 /\ ops[p].pc = "login" /\ ops'[p].pc = "gotToken") =>
                /\ Count(ops'[p].trace, "fetchToken") = 1
                /\ ops'[p].trace[Len(ops'[p].trace)] = EvResolved(ops'[p].tok)
                /\ token' = ops'[p].tok
    ]_vars

\* the second operation of a caller went out with the token the first one
\* had fetched and cached: no fetchToken call
C18_Witness ==
    /\ started = 2
    /\ token.kind = "jwt"
    /\ ops["a"].pc = "await"
    /\ ops["a"].trace = <<EvReuse(token), EvHttp("GET", FALSE, token)>>

\* the data calls of a request, sent or refused by fetch, in order
Calls(tr) == SelectSeq(tr, LAMBDA e : e.ev \in {"http", "refused"})

\* C19 (as claimed): after a 401 the retried call has the method and the
\* body of the first call of the request (the URL is the same by
\* construction); only the bearer token may differ.  For GET and for POST.
C19_Claimed ==
    \A p \in Procs :
        LET calls == Calls(ops[p].trace) IN
        Len(calls) = 2 =>
            /\ calls[2].method = calls[1].method
            /\ calls[2].hasBody = calls[1].hasBody
            /\ calls[2].ev = "http"

\* C20 (as claimed): fetchToken never resolves without a token: when the
\* login body has no jwt field it rejects, so getToken never caches and never
\* returns a missing token.
C20_Claimed ==
    \A p \in Procs :
        \A i \in 1..Len(ops[p].trace) :
            ops[p].trace[i].ev = "resolved" =>
                /\ ops[p].trace[i].tok # Undefined
                /\ ops[p].tok # Undefined

----------------------------------------------------------------------------
(* C21..C25: fetchToken in sequence, the token cache under concurrency *)

\* C21 (as claimed): within one fetchToken the login POST goes out at most
\* once, after the challenge GET, and only with the realm and the nonce the
\* challenge returned; a fetchToken whose challenge failed sends no login
\* POST and rejects.
C21_Claimed ==
    \A p \in Procs :
        LET tr == ops[p].trace IN
        \A i \in 1..Len(tr) :
            tr[i].ev = "login" =>
                /\ i > 1
                /\ tr[i - 1].ev = "fetchToken"
                /\ tr[i].body = "{usr, rlm, nnc, cnnc, hash}"

\* C22 (as claimed): when the final response of a request (the first one, or
\* the retried one) is successful and its body is no JSON, the request
\* returns null to its caller and throws nothing.
C22_Claimed ==
    \A p \in Procs :
        LET tr == ops[p].trace IN
        (/\ HasFinalResponse(tr)
         /\ ResponseOk(FinalResponse(tr).status)
         /\ FinalResponse(tr).body = "not json") =>
            /\ ops[p].pc = "done"
            /\ ops[p].req = Return("null")

\* the cached token is absent: null (egauge.ts) or undefined
Absent(t) == t.kind \in {"null", "undefined"}

\* C23: the token cache is one slot, the last write wins: in every state the
\* cached token is absent or a token a completed fetchToken of this Device
\* resolved with; every fetchToken that resolves overwrites the slot with
\* what it resolved with, whatever the slot held, and nothing else writes
\* it, so that the slot holds the token of the fetchToken that completed last.
C23_LastWriteWins ==
    /\ [](Absent(token) \/ token.id \in 1..issued)
    /\ [][/\ \A p \in Procs :
               (ops[p].pc = "login" /\ ops'[p].pc = "gotToken") =>
                   /\ token' = ops'[p].trace[Len(ops'[p].trace)].tok
                   /\ ops'[p].trace[Len(ops'[p].trace)].ev = "resolved"
                   /\ ~Absent(token') => token'.id = issued' /\ issued' = issued + 1
          /\ (\A p \in Procs : ~(ops[p].pc = "login" /\ ops'[p].pc = "gotToken")) =>
                   token' = token]_vars

\* two operations logged in side by side and both have finished: the cache
\* holds the token of the login that completed last, the other operation
\* went on with the token of the earlier one
C23_Witness ==
    /\ \A p \in Procs : ops[p].pc = "done" /\ ops[p].trace[1].ev = "fetchToken"
    /\ issued = 2
    /\ token.id = 2
    /\ ops["a"].tok.id = 1
    /\ ops["b"].tok = token

\* C24: the retried call of a request carries the token its own forced
\* refresh resolved with, whatever the cache holds when the call goes out;
\* it carries the token of the rejected call only if fetchToken resolved
\* with that same value again.
C24_RetryCarriesOwnRefresh ==
    \A p \in Procs :
        LET tr == ops[p].trace
            h == Places(tr, "http")
        IN Cardinality(h) = 2 =>
              LET first == Least(h)
                  second == Greatest(h)
              IN /\ tr[first + 1] = EvResponse(401, tr[first + 1].body)
                 /\ tr[first + 2] = EvFetchToken
                 /\ tr[second - 1].ev = "resolved"
                 /\ Count(SubSeq(tr, first, second), "resolved") = 1
                 /\ tr[second].tok = tr[second - 1].tok
                 /\ tr[second].tok = tr[first].tok => tr[second - 1].tok = tr[first].tok

\* between the forced refresh of one operation and its retried call the
\* other operation logged in and overwrote the cache: the retried call
\* carries the token of its own refresh, no longer the cached one
C24_Witness ==
    \E p \in Procs :
        LET tr == ops[p].trace IN
        /\ Cardinality(Places(tr, "http")) = 2
        /\ tr[Len(tr)].ev = "http"
        /\ tr[Len(tr)].tok.kind = "jwt"
        /\ token.kind = "jwt"
        /\ tr[Len(tr)].tok # token
        /\ tr[Len(tr)].tok # tr[Least(Places(tr, "http"))].tok

\* the operation of p saw 401 on its first call and its forced refresh has
\* resolved with a token
Refreshed(p) ==
    LET tr == ops[p].trace IN
    \E i \in Places(tr, "response") :
        /\ tr[i].status = 401
        /\ \E j \in (i + 1)..Len(tr) : tr[j].ev = "resolved" /\ ~Absent(tr[j].tok)

\* the token the 401 rejected, and the token the forced refresh resolved with
RejectedToken(p) == ops[p].trace[Least(Places(ops[p].trace, "http"))].tok

RefreshToken(p) ==
    LET tr == ops[p].trace IN
    tr[Least({j \in Places(tr, "resolved") : j > Least(Places(tr, "response"))})].tok

\* C25 (as claimed): once the forced refresh of an operation has succeeded,
\* every data call of an operation that started after it carries a token of
\* a fetchToken that completed after the 401 (the token of the refresh or a
\* later one), and never the token the 401 rejected.
C25_Claimed ==
    \A p, q \in Procs :
        (/\ p # q
         /\ Refreshed(p)
         /\ ops[q].pc # "idle"
         /\ ops[q].epoch >= RefreshToken(p).id) =>
            \A i \in Places(ops[q].trace, "http") :
                LET t == ops[q].trace[i].tok IN
                /\ t # RejectedToken(p)
                /\ ~Absent(t) => t.id >= RefreshToken(p).id

----------------------------------------------------------------------------
(* C26: the two implementations of getValuesForRange *)

\* C26: for every response with at least one row whose reported delta is the
\* requested interval, getValuesForRange of egauge.js and of egauge.ts both
\* return, and for every register name n the array egauge.js returns for n
\* is as long as the list egauge.ts returns and its k-th element is the
\* value of n in the k-th entry of that list.
C26_JsAndTsSeriesAgree ==
    (/\ conv.called
     /\ conv.op = "valuesForRange"
     /\ Len(conv.data.rows) >= 1
     /\ conv.data.delta = conv.interval) =>
        LET ts == TsValuesForRange(conv.data, conv.interval)
            js == JsValuesForRange(conv.data, conv.interval)
        IN /\ conv.out = IF impl = "ts" THEN ts ELSE js
           /\ ts.kind = "return"
           /\ js.kind = "return"
           /\ DOMAIN js.value = ConvNames
           /\ \A n \in ConvNames :
                 /\ Len(js.value[n]) = Len(ts.value)
                 /\ \A k \in 1..Len(ts.value) :
                       /\ DOMAIN ts.value[k].registers = ConvNames
                       /\ js.value[n][k] = ts.value[k].registers[n]

\* three rows of two registers, interval and delta 1: egauge.js returned the
\* two values of each register oldest first, as the entries of egauge.ts are
C26_Witness ==
    /\ impl = "js"
    /\ conv.called
    /\ conv.op = "valuesForRange"
    /\ conv.interval = 1
    /\ conv.data.delta = 1
    /\ conv.data.rows = << <<Digits(5), Digits(0)>>, <<Digits(0), Digits(0)>>,
                           <<Digits(0), Digits(5)>> >>
    /\ conv.out.kind = "return"
    /\ conv.out.value["use"] = <<Rat(0, 1000000), Rat(5000000, 1000000)>>
    /\ conv.out.value["gen"] = <<Rat(0 - 10000000, 1000000), Rat(0, 1000000)>>
    /\ TsValuesForRange(conv.data, conv.interval).value[1].registers["gen"]
          = Rat(0 - 10000000, 1000000)

====
